---- MODULE Spec2Model ----
(***************************************************************************)
(* Model of the two scheduled Lambda handlers of the repository:           *)
(*   infra/lambda/s3_expiration_alerter.py  (ExpirationScanner)            *)
(*   infra/lambda/stop_instances.py         (InstanceReaper)               *)
(* Time is an integer count of clock units; UnitsPerDay units make one     *)
(* day, so that instants that are not a whole number of days apart exist.  *)
(***************************************************************************)
EXTENDS Integers, Sequences, FiniteSets, TLC

\* ------------------------------------------------------------------ bounds
UnitsPerDay == 2
MaxPages == 3
MaxPageObjects == 2
MaxInstances == 3

\* ------------------------------------------------- program constants
DefaultAlertDays == 7
DefaultLifecycleDays == 365

VARIABLES
    \* ---- s3_expiration_alerter.py
    LIFECYCLE_EXPIRATION_DAYS,     \* module-level configuration (env)
    ALERT_DAYS_BEFORE_EXPIRATION,  \* module-level configuration (env)
    pc,                 \* position of the scanner's lambda_handler
    today,              \* datetime.now(timezone.utc), in clock units
    notifications,      \* the handler's list of notices
    pages,              \* pages the paginator has yielded so far
    publishCalls,       \* sns.publish requests issued, in order
    log,                \* lines printed by the scanner
    result,             \* values the scanner has returned (none or one)
    \* ---- stop_instances.py
    running,            \* provider: ids of running tagged instances
    runningAtStart,     \* provider: the running set before any invocation
    rpc,                \* position of each reaper invocation
    response,           \* describe_instances response of each invocation
    running_instance_ids,
    instances_to_stop,
    stopCalls,          \* ec2.stop_instances requests of each invocation
    rlog,               \* lines printed by each reaper invocation
    rresult             \* values each reaper invocation has returned

scannerVars == <<LIFECYCLE_EXPIRATION_DAYS, ALERT_DAYS_BEFORE_EXPIRATION, pc,
                 today, notifications, pages, publishCalls, log, result>>
reaperVars == <<running, runningAtStart, rpc, response, running_instance_ids,
                instances_to_stop, stopCalls, rlog, rresult>>
vars == <<LIFECYCLE_EXPIRATION_DAYS, ALERT_DAYS_BEFORE_EXPIRATION, pc,
          today, notifications, pages, publishCalls, log, result,
          running, runningAtStart, rpc, response, running_instance_ids,
          instances_to_stop, stopCalls, rlog, rresult>>

Range(s) == {s[i] : i \in 1..Len(s)}

\* ======================================================================
\*                       ExpirationScanner
\* ======================================================================

\* Environment configurations the handler is deployed with: the defaults
\* and two small overrides (a one-day lead, and a lead equal to the window).
EnvChoices ==
    { [life |-> DefaultLifecycleDays, alert |-> DefaultAlertDays],
      [life |-> 3, alert |-> 1],
      [life |-> 2, alert |-> 2] }

\* Object keys, in the ascending order list_objects_v2 returns them.
KeyOrder == <<"a.txt", "b.txt", "c.txt">>
KeyRank(k) == CHOOSE i \in 1..Len(KeyOrder) : KeyOrder[i] = k

\* timedelta(days=n)
timedelta(days) == days * UnitsPerDay

\* DaysOf with the difference rounded up to whole days
DaysOf_RoundUp(delta) == (delta + UnitsPerDay - 1) \div UnitsPerDay

\* timedelta.days: the whole-day component, floor of the difference
DaysOf(delta) == delta \div UnitsPerDay

\* strftime('%Y-%m-%d'): the calendar day an instant falls in
FormatDate(t) == t \div UnitsPerDay

potential_expiration_date(last_modified) ==
    last_modified + timedelta(LIFECYCLE_EXPIRATION_DAYS)

alert_start_date(last_modified) ==
    potential_expiration_date(last_modified)
        - timedelta(ALERT_DAYS_BEFORE_EXPIRATION)

\* InAlertWindow with the start of the window excluded
InAlertWindow_StrictStart(last_modified, now) ==
    /\ alert_start_date(last_modified) < now
    /\ now < potential_expiration_date(last_modified)

\* line 34: alert_start_date <= today < potential_expiration_date
InAlertWindow(last_modified, now) ==
    /\ alert_start_date(last_modified) <= now
    /\ now < potential_expiration_date(last_modified)

\* line 35
days_to_expire(last_modified, now) ==
    DaysOf(potential_expiration_date(last_modified) - now)

\* lines 36-46: the notice appended for a flagged object
Notice(obj, now) ==
    [ object_key |-> obj.Key,
      message |-> [ key |-> obj.Key,
                    last_modified |-> obj.LastModified,
                    days |-> days_to_expire(obj.LastModified, now),
                    around |-> FormatDate(
                        potential_expiration_date(obj.LastModified)) ] ]

\* lines 23-47: the inner loop over page['Contents']
RECURSIVE ProcessContents(_, _, _)
ProcessContents(contents, notes, now) ==
    IF contents = <<>> THEN notes
    ELSE LET obj == Head(contents)
             next == IF InAlertWindow(obj.LastModified, now)
                     THEN Append(notes, Notice(obj, now))
                     ELSE notes
         IN ProcessContents(Tail(contents), next, now)

\* the "Alert for object" lines printed by the inner loop
RECURSIVE AlertLines(_, _)
AlertLines(contents, now) ==
    IF contents = <<>> THEN <<>>
    ELSE (IF InAlertWindow(Head(contents).LastModified, now)
          THEN << [kind |-> "alert", key |-> Head(contents).Key] >>
          ELSE <<>>) \o AlertLines(Tail(contents), now)

\* lines 21-22: a page without 'Contents' is skipped
ProcessPage(page, notes, now) ==
    IF ~page.HasContents THEN notes
    ELSE ProcessContents(page.Contents, notes, now)

\* AfterPage with a page without 'Contents' ending the loop
AfterPage_StopAtEmpty(page) ==
    IF page.IsTruncated /\ page.HasContents THEN "listing" ELSE "publish"

\* the for loop of line 20 ends when the paginator has no further page
AfterPage(page) == IF page.IsTruncated THEN "listing" ELSE "publish"

\* ShouldPublish without the emptiness test
ShouldPublish_Always(notes) == TRUE

\* line 49: if notifications
ShouldPublish(notes) == notes # <<>>

\* line 50
Subject(notes) == [count |-> Len(notes)]

\* ConsolidatedMessage carrying the last notice only
ConsolidatedMessage_LastOnly(notes) ==
    IF notes = <<>> THEN <<>> ELSE << notes[Len(notes)].message >>

\* lines 51-52: the joined messages
ConsolidatedMessage(notes) == [i \in 1..Len(notes) |-> notes[i].message]

\* ExceptBlock re-raising without printing
ExceptBlock_Silent(lines) == lines

\* lines 63-65: the except block prints the error before re-raising it
ExceptBlock(lines) == Append(lines, [kind |-> "error"])

\* lines 67-70
ScannerResult(notes) == [statusCode |-> 200, found |-> Len(notes)]

\* ---- the provider's side of list_objects_v2 ----
RECURSIVE AllObjects(_)
AllObjects(ps) ==
    IF ps = <<>> THEN <<>>
    ELSE (IF Head(ps).HasContents THEN Head(ps).Contents ELSE <<>>)
         \o AllObjects(Tail(ps))

LastRank(ps) ==
    LET objs == AllObjects(ps)
    IN IF objs = <<>> THEN 0 ELSE KeyRank(objs[Len(objs)].Key)

\* ages (in clock units) an object may have: every whole number of days
\* from a day before the alert window opens to a day after it closes, and
\* the instants one clock unit either side of the two ends of the window
AgeChoices ==
    { a \in { timedelta(d) :
                d \in (LIFECYCLE_EXPIRATION_DAYS
                         - ALERT_DAYS_BEFORE_EXPIRATION - 1)
                      .. (LIFECYCLE_EXPIRATION_DAYS + 1) }
             \cup { timedelta(LIFECYCLE_EXPIRATION_DAYS
                               - ALERT_DAYS_BEFORE_EXPIRATION) + u :
                      u \in {-1, 1} }
             \cup { timedelta(LIFECYCLE_EXPIRATION_DAYS) + u :
                      u \in {-1, 1} } : a >= 0 }

Ascending(K) ==
    CHOOSE s \in [1..Cardinality(K) -> K] :
        \A i, j \in 1..Cardinality(K) : i < j => s[i] < s[j]

\* the Contents a next page may carry: keys after those already listed
ContentsChoices(ps, now) ==
    UNION { { [i \in 1..Cardinality(K) |->
                 [Key |-> KeyOrder[Ascending(K)[i]],
                  LastModified |-> now - age[Ascending(K)[i]]]] :
              age \in [K -> AgeChoices] } :
            K \in { S \in SUBSET ((LastRank(ps) + 1)..Len(KeyOrder)) :
                      S # {} /\ Cardinality(S) <= MaxPageObjects } }

\* the pages the paginator may yield next; it yields at most MaxPages pages
PageChoices(ps, now) ==
    { [HasContents |-> FALSE, Contents |-> <<>>, IsTruncated |-> t] :
        t \in {b \in BOOLEAN : b => Len(ps) + 1 < MaxPages} }
    \cup
    { [HasContents |-> TRUE, Contents |-> c, IsTruncated |-> t] :
        c \in ContentsChoices(ps, now),
        t \in {b \in BOOLEAN : b => Len(ps) + 1 < MaxPages} }

\* the instant the handler is invoked at: a mid-day one
ClockChoices == {1001}

ScannerInit ==
    /\ \E env \in EnvChoices :
          /\ LIFECYCLE_EXPIRATION_DAYS = env.life
          /\ ALERT_DAYS_BEFORE_EXPIRATION = env.alert
    /\ pc = "start"
    /\ today = 0
    /\ notifications = <<>>
    /\ pages = <<>>
    /\ publishCalls = <<>>
    /\ log = <<>>
    /\ result = <<>>

\* lines 14-16: read the clock, start with no notices
Start ==
    /\ pc = "start"
    /\ \E now \in ClockChoices : today' = now
    /\ notifications' = <<>>
    /\ log' = Append(log, [kind |-> "checking"])
    /\ pc' = "listing"
    /\ UNCHANGED <<LIFECYCLE_EXPIRATION_DAYS, ALERT_DAYS_BEFORE_EXPIRATION,
                   pages, publishCalls, result>>

\* lines 20-47: one iteration of the loop over paginator.paginate(...)
ListPage ==
    /\ pc = "listing"
    /\ \E page \in PageChoices(pages, today) :
          /\ pages' = Append(pages, page)
          /\ notifications' = ProcessPage(page, notifications, today)
          /\ log' = log \o (IF page.HasContents
                             THEN AlertLines(page.Contents, today)
                             ELSE <<>>)
          /\ pc' = AfterPage(page)
    /\ UNCHANGED <<LIFECYCLE_EXPIRATION_DAYS, ALERT_DAYS_BEFORE_EXPIRATION,
                   today, publishCalls, result>>

\* lines 63-65: the except block, entered from a failed page request
ListPageFails ==
    /\ pc = "listing"
    /\ log' = ExceptBlock(log)
    /\ pc' = "raised"
    /\ UNCHANGED <<LIFECYCLE_EXPIRATION_DAYS, ALERT_DAYS_BEFORE_EXPIRATION,
                   today, notifications, pages, publishCalls, result>>

\* lines 49-59 and 67-70: publish the consolidated message, then return
Publish ==
    /\ pc = "publish"
    /\ ShouldPublish(notifications)
    /\ publishCalls' = Append(publishCalls,
                              [Subject |-> Subject(notifications),
                               Message |-> ConsolidatedMessage(notifications)])
    /\ log' = Append(log, [kind |-> "published"])
    /\ result' = <<ScannerResult(notifications)>>
    /\ pc' = "done"
    /\ UNCHANGED <<LIFECYCLE_EXPIRATION_DAYS, ALERT_DAYS_BEFORE_EXPIRATION,
                   today, notifications, pages>>

\* lines 54-58 raise, then lines 63-65
PublishFails ==
    /\ pc = "publish"
    /\ ShouldPublish(notifications)
    /\ publishCalls' = Append(publishCalls,
                              [Subject |-> Subject(notifications),
                               Message |-> ConsolidatedMessage(notifications)])
    /\ log' = ExceptBlock(log)
    /\ pc' = "raised"
    /\ UNCHANGED <<LIFECYCLE_EXPIRATION_DAYS, ALERT_DAYS_BEFORE_EXPIRATION,
                   today, notifications, pages, result>>

\* lines 60-61 and 67-70: nothing to publish, return
NoPublish ==
    /\ pc = "publish"
    /\ ~ShouldPublish(notifications)
    /\ log' = Append(log, [kind |-> "none"])
    /\ result' = <<ScannerResult(notifications)>>
    /\ pc' = "done"
    /\ UNCHANGED <<LIFECYCLE_EXPIRATION_DAYS, ALERT_DAYS_BEFORE_EXPIRATION,
                   today, notifications, pages, publishCalls>>

\* ======================================================================
\*                       InstanceReaper
\* ======================================================================

\* instance n stands for the id "i-n"
Instances == 1..MaxInstances
\* the invocations that may overlap: two, named for the order they start in
Invocations == {"first", "second"}

\* the orders in which the provider may list a set of instances
RECURSIVE Orders(_)
Orders(S) ==
    IF S = {} THEN { <<>> }
    ELSE UNION { { <<x>> \o rest : rest \in Orders(S \ {x}) } : x \in S }

\* the ways a listing is grouped into reservations (none of them empty)
RECURSIVE Reservations(_)
Reservations(ids) ==
    IF ids = <<>> THEN { <<>> }
    ELSE UNION { { << [Instances |-> SubSeq(ids, 1, k)] >> \o rest :
                     rest \in Reservations(SubSeq(ids, k + 1, Len(ids))) } :
                 k \in 1..Len(ids) }

\* lines 25-28: collect the ids of every instance of every reservation
RECURSIVE CollectIds(_)
CollectIds(reservations) ==
    IF reservations = <<>> THEN <<>>
    ELSE Head(reservations).Instances \o CollectIds(Tail(reservations))

\* AllButFirst keeping the last instance instead: running_instance_ids[:-1]
AllButFirst_DropLast(ids) ==
    IF ids = <<>> THEN <<>> ELSE SubSeq(ids, 1, Len(ids) - 1)

\* line 32: running_instance_ids[1:]
AllButFirst(ids) == IF ids = <<>> THEN <<>> ELSE Tail(ids)

\* lines 43-46
ReaperResult(targets) == [statusCode |-> 200, body |-> targets]

ReaperInit ==
    /\ running \in SUBSET Instances
    /\ runningAtStart = running
    /\ rpc = [i \in Invocations |-> "start"]
    /\ response = [i \in Invocations |-> <<>>]
    /\ running_instance_ids = [i \in Invocations |-> <<>>]
    /\ instances_to_stop = [i \in Invocations |-> <<>>]
    /\ stopCalls = [i \in Invocations |-> <<>>]
    /\ rlog = [i \in Invocations |-> <<>>]
    /\ rresult = [i \in Invocations |-> <<>>]

\* lines 18-35: list the running tagged instances, pick the ones to stop
DescribeInstances(i) ==
    /\ rpc[i] = "start"
    /\ \E order \in Orders(running) :
         \E resp \in Reservations(order) :
            LET ids == CollectIds(resp)
                targets == AllButFirst(ids)
            IN /\ response' = [response EXCEPT ![i] = resp]
               /\ running_instance_ids' =
                      [running_instance_ids EXCEPT ![i] = ids]
               /\ instances_to_stop' =
                      [instances_to_stop EXCEPT ![i] = targets]
               /\ rlog' = [rlog EXCEPT ![i] =
                      @ \o << [kind |-> "found", found |-> Len(ids),
                               stopping |-> Len(targets)],
                              [kind |-> "to_stop", ids |-> targets] >>]
    /\ rpc' = [rpc EXCEPT ![i] = "stopping"]
    /\ UNCHANGED <<running, runningAtStart, stopCalls, rresult>>

\* line 18 raises: nothing catches it, the error leaves the handler
DescribeInstancesFails(i) ==
    /\ rpc[i] = "start"
    /\ rpc' = [rpc EXCEPT ![i] = "raised"]
    /\ UNCHANGED <<running, runningAtStart, response, running_instance_ids,
                   instances_to_stop, stopCalls, rlog, rresult>>

\* lines 38-46: the stop request, whatever the list holds, then return
StopInstances(i) ==
    /\ rpc[i] = "stopping"
    /\ stopCalls' = [stopCalls EXCEPT ![i] = Append(@, instances_to_stop[i])]
    /\ running' = running \ Range(instances_to_stop[i])
    /\ rlog' = [rlog EXCEPT ![i] = Append(@, [kind |-> "success"])]
    /\ rresult' = [rresult EXCEPT ![i] =
                      <<ReaperResult(instances_to_stop[i])>>]
    /\ rpc' = [rpc EXCEPT ![i] = "done"]
    /\ UNCHANGED <<runningAtStart, response, running_instance_ids,
                   instances_to_stop>>

\* line 38 raises: the request was sent, and may or may not have taken
\* effect before the failure was reported; nothing catches the error
StopInstancesFails(i) ==
    /\ rpc[i] = "stopping"
    /\ stopCalls' = [stopCalls EXCEPT ![i] = Append(@, instances_to_stop[i])]
    /\ running' \in {running, running \ Range(instances_to_stop[i])}
    /\ rpc' = [rpc EXCEPT ![i] = "raised"]
    /\ UNCHANGED <<runningAtStart, response, running_instance_ids,
                   instances_to_stop, rlog, rresult>>

ReaperIdle ==
    /\ running = {}
    /\ runningAtStart = {}
    /\ rpc = <<>>
    /\ response = <<>>
    /\ running_instance_ids = <<>>
    /\ instances_to_stop = <<>>
    /\ stopCalls = <<>>
    /\ rlog = <<>>
    /\ rresult = <<>>

ScannerIdle ==
    /\ LIFECYCLE_EXPIRATION_DAYS = DefaultLifecycleDays
    /\ ALERT_DAYS_BEFORE_EXPIRATION = DefaultAlertDays
    /\ pc = "start"
    /\ today = 0
    /\ notifications = <<>>
    /\ pages = <<>>
    /\ publishCalls = <<>>
    /\ log = <<>>
    /\ result = <<>>

ScannerNext ==
    \/ Start /\ UNCHANGED reaperVars
    \/ ListPage /\ UNCHANGED reaperVars
    \/ ListPageFails /\ UNCHANGED reaperVars
    \/ Publish /\ UNCHANGED reaperVars
    \/ PublishFails /\ UNCHANGED reaperVars
    \/ NoPublish /\ UNCHANGED reaperVars

ScannerStart == ScannerInit /\ ReaperIdle

ScannerSpec == ScannerStart /\ [][ScannerNext]_vars

ReaperNext ==
    \E i \in Invocations :
        \/ DescribeInstances(i) /\ UNCHANGED scannerVars
        \/ DescribeInstancesFails(i) /\ UNCHANGED scannerVars
        \/ StopInstances(i) /\ UNCHANGED scannerVars
        \/ StopInstancesFails(i) /\ UNCHANGED scannerVars

ReaperStart == ReaperInit /\ ScannerIdle

ReaperSpec == ReaperStart /\ [][ReaperNext]_vars

\* ======================================================================
\*                       Properties
\* ======================================================================

\* every object the scan has been handed so far, over all pages
Scanned == AllObjects(pages)

\* k of the specification, in clock units: the time left until the object
\* reaches the retention window, lastModified = now - (retention - k)
KUnits(obj) ==
    LIFECYCLE_EXPIRATION_DAYS * UnitsPerDay - (today - obj.LastModified)

LeadUnits == ALERT_DAYS_BEFORE_EXPIRATION * UnitsPerDay

\* the keys the specification wants flagged among the scanned objects
ExpectedFlagged ==
    { Scanned[i].Key : i \in { j \in 1..Len(Scanned) :
          0 < KUnits(Scanned[j]) /\ KUnits(Scanned[j]) <= LeadUnits } }

FlaggedKeys == { notifications[i].object_key : i \in 1..Len(notifications) }

\* the paginator has yielded its last page
ListingConsumed == pages # <<>> /\ ~pages[Len(pages)].IsTruncated

\* C1: an object is flagged iff 0 < k <= alertLeadDays, k being the time
\* left to its projected expiration (k = alertLeadDays flagged, k = 0 not).
C1_FlaggedIffInWindow ==
    \A i \in 1..Len(Scanned) :
        (Scanned[i].Key \in FlaggedKeys)
            <=> (0 < KUnits(Scanned[i]) /\ KUnits(Scanned[i]) <= LeadUnits)

\* C1 witness: one scan met an object exactly at alertStart (flagged) and
\* one exactly at its expiration instant (not flagged).
C1_Witness ==
    /\ pc = "done"
    /\ \E i, j \in 1..Len(Scanned) :
          /\ KUnits(Scanned[i]) = LeadUnits
          /\ Scanned[i].Key \in FlaggedKeys
          /\ KUnits(Scanned[j]) = 0
          /\ Scanned[j].Key \notin FlaggedKeys

\* C4: when no scanned object lies in the alert window, no publish call
\* is made.
C4_NoPublishWhenNothingFlagged ==
    ExpectedFlagged = {} => publishCalls = <<>>

\* C4 witness: a completed scan over objects none of which was flagged.
C4_Witness ==
    /\ pc = "done"
    /\ Len(Scanned) >= 2
    /\ ExpectedFlagged = {}
    /\ publishCalls = <<>>

\* C5: never more than one publish call; a publish call happens only once
\* the listing is consumed, its subject carries the flagged count and its
\* body the key of every flagged object; and a finished invocation whose
\* listing was consumed with a non-empty flagged set made exactly one.
C5_OnePublishWithEveryKey ==
    /\ Len(publishCalls) <= 1
    /\ \A c \in 1..Len(publishCalls) :
          /\ ListingConsumed
          /\ publishCalls[c].Subject.count = Cardinality(ExpectedFlagged)
          /\ { publishCalls[c].Message[m].key :
                  m \in 1..Len(publishCalls[c].Message) } = ExpectedFlagged
    /\ (pc \in {"done", "raised"} /\ ListingConsumed /\ ExpectedFlagged # {})
          => Len(publishCalls) = 1

\* C5 witness: a finished scan that flagged two objects on different pages
\* and published once.
C5_Witness ==
    /\ pc = "done"
    /\ Cardinality(ExpectedFlagged) >= 2
    /\ Len(pages) >= 2
    /\ Len(publishCalls) = 1

\* C7: a scanner invocation that failed returned no result and printed the
\* error last; a listing failure is followed by no publish call, a failed
\* publish is the only publish call; an invocation that printed an error
\* did not go on.
C7_ScannerFailureAborts ==
    /\ pc = "raised" =>
          /\ result = <<>>
          /\ log # <<>> /\ log[Len(log)].kind = "error"
          /\ ~ListingConsumed => publishCalls = <<>>
          /\ ListingConsumed => Len(publishCalls) = 1
    /\ result # <<>> => \A l \in 1..Len(log) : log[l].kind # "error"

\* C7 witness: the listing failed after a page had produced notices.
C7_Witness ==
    /\ pc = "raised"
    /\ notifications # <<>>
    /\ ~ListingConsumed
    /\ publishCalls = <<>>

\* C9: the days reported for a flagged object are the whole days between
\* now and its projected expiration, truncated, and lie in
\* 0..alertLeadDays; with the defaults an object modified 360 days ago is
\* flagged with 5 days.
C9_RemainingDaysTruncated ==
    /\ \A n \in 1..Len(notifications) :
         \E i \in 1..Len(Scanned) :
            /\ Scanned[i].Key = notifications[n].object_key
            /\ LET d == notifications[n].message.days
               IN /\ d * UnitsPerDay <= KUnits(Scanned[i])
                  /\ KUnits(Scanned[i]) < (d + 1) * UnitsPerDay
                  /\ d \in 0..ALERT_DAYS_BEFORE_EXPIRATION
    /\ \A i \in 1..Len(Scanned) :
          ( /\ LIFECYCLE_EXPIRATION_DAYS = 365
            /\ ALERT_DAYS_BEFORE_EXPIRATION = 7
            /\ today - Scanned[i].LastModified = 360 * UnitsPerDay )
          => \E n \in 1..Len(notifications) :
                /\ notifications[n].object_key = Scanned[i].Key
                /\ notifications[n].message.days = 5

\* C9 witness: the example object, and one whose remaining time is not a
\* whole number of days, both flagged.
C9_Witness ==
    /\ LIFECYCLE_EXPIRATION_DAYS = 365
    /\ ALERT_DAYS_BEFORE_EXPIRATION = 7
    /\ \E i, j \in 1..Len(Scanned) :
          /\ today - Scanned[i].LastModified = 360 * UnitsPerDay
          /\ Scanned[i].Key \in FlaggedKeys
          /\ KUnits(Scanned[j]) % UnitsPerDay # 0
          /\ Scanned[j].Key \in FlaggedKeys

\* C10: a returned result has statusCode 200, is returned only once the
\* whole listing is consumed, and reports the number of objects of all
\* pages that lie in the alert window.
C10_WholeListingCounted ==
    result # <<>> =>
        /\ result[1].statusCode = 200
        /\ ListingConsumed
        /\ result[1].found = Cardinality(ExpectedFlagged)

\* C10 witness: a page without Contents was followed by a page whose
\* object was counted.
C10_Witness ==
    /\ pc = "done"
    /\ \E p, q \in 1..Len(pages) :
          /\ p < q
          /\ ~pages[p].HasContents
          /\ pages[q].HasContents
          /\ pages[q].Contents[1].Key \in FlaggedKeys
    /\ result[1].found >= 1

Max(a, b) == IF a >= b THEN a ELSE b

\* C2: every stop request of an invocation that listed N instances targets
\* max(N-1, 0) instances, and an invocation that listed at most one
\* instance makes no stop request.
C2_NoStopCallForAtMostOne ==
    \A i \in Invocations :
        LET N == Len(running_instance_ids[i])
        IN /\ \A c \in 1..Len(stopCalls[i]) :
                 Len(stopCalls[i][c]) = Max(N - 1, 0)
           /\ (rpc[i] # "start" /\ N <= 1) => stopCalls[i] = <<>>

\* C3: if a tagged instance was running at the start, one is running
\* after any interleaving of the invocations.
C3_OneInstanceStaysRunning ==
    runningAtStart # {} => running # {}

\* the n-th instance of a response, counting across its reservations
RECURSIVE NthListed(_, _)
NthListed(reservations, n) ==
    IF n <= Len(Head(reservations).Instances)
    THEN Head(reservations).Instances[n]
    ELSE NthListed(Tail(reservations),
                   n - Len(Head(reservations).Instances))

RECURSIVE CountListed(_)
CountListed(reservations) ==
    IF reservations = <<>> THEN 0
    ELSE Len(Head(reservations).Instances) + CountListed(Tail(reservations))

\* C6: the stop request of an invocation targets, in order, the second to
\* the last instance of its listing (flattened across reservations); the
\* first listed instance is not targeted, nor any instance not listed;
\* for the listing [i-1, i-2, i-3] the request is [i-2, i-3].
C6_StopsAllButFirstListed ==
    \A i \in Invocations :
        rpc[i] # "start" =>
          LET n == CountListed(response[i])
          IN /\ Len(stopCalls[i]) <= 1
             /\ \A c \in 1..Len(stopCalls[i]) :
                  /\ Len(stopCalls[i][c]) = Max(n - 1, 0)
                  /\ \A k \in 1..Len(stopCalls[i][c]) :
                        stopCalls[i][c][k] = NthListed(response[i], k + 1)
                  /\ n >= 1 =>
                        NthListed(response[i], 1)
                            \notin Range(stopCalls[i][c])
                  /\ Range(stopCalls[i][c])
                        \subseteq { NthListed(response[i], k) : k \in 1..n }
                  /\ (n = 3 /\ \A k \in 1..3 :
                                  NthListed(response[i], k) = k)
                        => stopCalls[i][c] = <<2, 3>>
             /\ rpc[i] = "done" => Len(stopCalls[i]) = 1

\* C6 witness: an invocation listed [i-1, i-2, i-3] over two reservations
\* and its stop request for [i-2, i-3] left i-1 running.
C6_Witness ==
    \E i \in Invocations :
        /\ rpc[i] = "done"
        /\ Len(response[i]) = 2
        /\ running_instance_ids[i] = <<1, 2, 3>>
        /\ stopCalls[i] = << <<2, 3>> >>
        /\ running = {1}

\* C8: a reaper invocation whose list or stop request failed printed the
\* error before it propagated, and returned no 200 result.
C8_ReaperFailureLogged ==
    \A i \in Invocations :
        rpc[i] = "raised" =>
            /\ rresult[i] = <<>>
            /\ \E l \in 1..Len(rlog[i]) : rlog[i][l].kind = "error"

====
